---- MODULE Spec2Model ----
(***************************************************************************)
(* Finite automata of vikram-saha/automata: DFA and NFA validation, input  *)
(* acceptance, the DFA -> NFA lift and the NFA -> DFA subset construction.  *)
(*                                                                         *)
(* An automaton is a record                                                *)
(*   [states, symbols, transitions, order, initial_state, final_states]    *)
(* where transitions is the dict of rows (a function whose DOMAIN is the   *)
(* set of keys of the dict) and order is the iteration order of that dict  *)
(* (Python dicts iterate in insertion order).  A DFA row maps a symbol to  *)
(* one state, an NFA row maps a symbol or "" (lambda) to a set of states.  *)
(***************************************************************************)
EXTENDS Integers, Sequences, FiniteSets, TLC

-----------------------------------------------------------------------------
(* Bounds of the model *)

\* longest input string given to an acceptance test
MaxLen == 3

\* depth of nested calls after which the interpreter raises RecursionError
RecursionLimit == 5

-----------------------------------------------------------------------------
(* Universe of names *)

\* state names used for the enumerated automata
Q == {"q0", "q1"}

\* alphabet symbols used for the enumerated automata
Sigma == {"a", "b"}

\* the key of lambda (epsilon) transitions, the empty string
Lambda == ""

\* every state name of the model, in the order Python's sorted() gives strings
NameOrder == <<"S1", "S2", "q0", "q1", "q10", "q2", "q3", "q4", "q5", "q6", "q7", "q8", "q9">>

\* the outcome of a call: a returned value or a raised exception
Return(v) == [raised |-> "none", value |-> v]
Raise(e) == [raised |-> e, value |-> {}]

-----------------------------------------------------------------------------
(* Helpers standing for Python built-ins *)

\* sorted(states) for a set of state names
Sorted(S) == SelectSeq(NameOrder, LAMBDA x : x \in S)

\* ','.join(names): the names separated by commas, as a sequence of tokens
RECURSIVE Join(_)
Join(names) ==
    IF Len(names) = 0 THEN <<>>
    ELSE IF Len(names) = 1 THEN <<names[1]>>
    ELSE <<names[1], ",">> \o Join(Tail(names))

\* 2**n
RECURSIVE Pow2(_)
Pow2(n) == IF n = 0 THEN 1 ELSE 2 * Pow2(n - 1)

\* the set of the elements of a sequence
Range(s) == {s[k] : k \in 1..Len(s)}

\* all orders in which a dict with key set K can iterate
Orders(K) == {s \in [1..Cardinality(K) -> K] : Range(s) = K}

\* all strings over the symbol set A of length at most n
Words(A, n) == UNION {[1..k -> A] : k \in 0..n}

\* all dict rows with keys among K and values among V
Rows(K, V) == UNION {[D -> V] : D \in SUBSET K}

-----------------------------------------------------------------------------
(* NFA: lambda closure and next states (automata/nfa.py) *)

\* NFA._add_lambda_transition_states: the end states of the lambda
\* transitions connected to `states`, by plain recursion (no visited set);
\* depth is the nesting of the call, and the call raises RecursionError
\* once the nesting passes the interpreter's limit
RECURSIVE add_lambda_transition_states(_, _, _)
add_lambda_transition_states(nfa, states, depth) ==
    IF depth > RecursionLimit THEN Raise("RecursionError")
    ELSE LET sub(state) ==
                 IF Lambda \in DOMAIN nfa.transitions[state]
                 THEN add_lambda_transition_states(
                          nfa, nfa.transitions[state][Lambda], depth + 1)
                 ELSE Return({})
             direct(state) ==
                 IF Lambda \in DOMAIN nfa.transitions[state]
                 THEN nfa.transitions[state][Lambda]
                 ELSE {}
         IN IF \E state \in states : sub(state).raised # "none"
            THEN Raise("RecursionError")
            ELSE Return(UNION {direct(state) \cup sub(state).value : state \in states})

\* dict.get(symbol) of a row followed by the truth test `if symbol_end_states`:
\* a missing key (None) and an empty set both contribute nothing
RowGet(row, symbol) == IF symbol \in DOMAIN row THEN row[symbol] ELSE {}

\* a variant of NFA._get_next_current_states in which a current state with
\* no end state on the symbol stays in the set
get_next_current_states_keeps_stuck_states(nfa, current_states, symbol) ==
    LET ends(s) == RowGet(nfa.transitions[s], symbol)
        closure(s) == add_lambda_transition_states(nfa, ends(s), 1)
        live == {s \in current_states : ends(s) # {}}
    IN IF \E s \in live : closure(s).raised # "none"
       THEN Raise("RecursionError")
       ELSE Return((current_states \ live)
                       \cup UNION {ends(s) \cup closure(s).value : s \in live})

\* NFA._get_next_current_states
get_next_current_states(nfa, current_states, symbol) ==
    LET ends(s) == RowGet(nfa.transitions[s], symbol)
        closure(s) == add_lambda_transition_states(nfa, ends(s), 1)
        live == {s \in current_states : ends(s) # {}}
    IN IF \E s \in live : closure(s).raised # "none"
       THEN Raise("RecursionError")
       ELSE Return(UNION {ends(s) \cup closure(s).value : s \in live})

-----------------------------------------------------------------------------
(* Validation (automata/fa/dfa.py, automata/nfa.py) *)

\* the result of a validation pass: the exception raised and the check that
\* raised it, or no exception
Valid == [error |-> "none", check |-> "none"]
Invalid(e, c) == [error |-> e, check |-> c]

\* the first failure of a sequence of check results, as a sequence of calls
\* each of which may raise
FirstFailure(results) ==
    LET bad == {k \in 1..Len(results) : results[k].error # "none"}
    IN IF bad = {} THEN Valid
       ELSE results[CHOOSE k \in bad : \A j \in bad : k <= j]

\* DFA._validate_transition_start_states
validate_transition_start_states(self) ==
    IF \E state \in self.states : state \notin DOMAIN self.transitions
    THEN Invalid("MissingStateError", "start_state")
    ELSE Valid

\* a variant of DFA._validate_transition_missing_symbols that only looks
\* for a missing symbol in a row that has some symbol
validate_transition_missing_symbols_nonempty_row(self, paths) ==
    IF DOMAIN paths # {} /\ \E symbol \in self.symbols : symbol \notin DOMAIN paths
    THEN Invalid("MissingSymbolError", "missing_symbol")
    ELSE Valid

\* DFA._validate_transition_missing_symbols
validate_transition_missing_symbols(self, paths) ==
    IF \E symbol \in self.symbols : symbol \notin DOMAIN paths
    THEN Invalid("MissingSymbolError", "missing_symbol")
    ELSE Valid

\* DFA._validate_transition_invalid_symbols
validate_transition_invalid_symbols(self, paths) ==
    IF \E path_symbol \in DOMAIN paths : path_symbol \notin self.symbols
    THEN Invalid("InvalidSymbolError", "invalid_symbol")
    ELSE Valid

\* DFA._validate_transition_end_states
validate_transition_end_states(self, paths) ==
    IF \E symbol \in DOMAIN paths : paths[symbol] \notin self.states
    THEN Invalid("InvalidStateError", "end_state")
    ELSE Valid

\* a variant of DFA._validate_transitions that checks the end states of a
\* row before its symbols
validate_transitions_end_states_first(self, paths) ==
    FirstFailure(<<validate_transition_end_states(self, paths),
                   validate_transition_missing_symbols(self, paths),
                   validate_transition_invalid_symbols(self, paths)>>)

\* DFA._validate_transitions: the three checks of one row, in this order
validate_transitions(self, paths) ==
    FirstFailure(<<validate_transition_missing_symbols(self, paths),
                   validate_transition_invalid_symbols(self, paths),
                   validate_transition_end_states(self, paths)>>)

\* FA._validate_initial_state
validate_initial_state(self) ==
    IF self.initial_state \notin self.states
    THEN Invalid("InvalidStateError", "initial_state")
    ELSE Valid

\* FA._validate_final_states
validate_final_states(self) ==
    IF \E state \in self.final_states : state \notin self.states
    THEN Invalid("InvalidStateError", "final_states")
    ELSE Valid

\* DFA.validate_self: start states, then row after row in the dict's
\* iteration order, then the initial state, then the final states
validate_self(self) ==
    FirstFailure(
        <<validate_transition_start_states(self)>>
        \o [k \in 1..Len(self.order) |->
               validate_transitions(self, self.transitions[self.order[k]])]
        \o <<validate_initial_state(self), validate_final_states(self)>>)

\* a variant of NFA._validate_transition_symbols that does not allow the
\* lambda key
nfa_validate_transition_symbols_no_lambda(self, paths) ==
    LET path_symbols == DOMAIN paths
        invalid_symbols == path_symbols \ self.symbols
    IN IF invalid_symbols # {}
       THEN Invalid("InvalidSymbolError", "invalid_symbol")
       ELSE Valid

\* NFA._validate_transition_symbols
nfa_validate_transition_symbols(self, paths) ==
    LET path_symbols == DOMAIN paths
        invalid_symbols == path_symbols \ (self.symbols \cup {Lambda})
    IN IF invalid_symbols # {}
       THEN Invalid("InvalidSymbolError", "invalid_symbol")
       ELSE Valid

\* Automaton._validate_transition_end_states, given the set of end states
nfa_validate_transition_end_states(self, path_states) ==
    IF path_states \ self.states # {}
    THEN Invalid("InvalidStateError", "end_state")
    ELSE Valid

\* the body of the row loop of NFA.validate_automaton
nfa_validate_row(self, paths) ==
    LET path_states == UNION {paths[symbol] : symbol \in DOMAIN paths}
    IN FirstFailure(<<nfa_validate_transition_symbols(self, paths),
                      nfa_validate_transition_end_states(self, path_states)>>)

\* NFA.validate_automaton
validate_automaton(self) ==
    FirstFailure(
        <<validate_transition_start_states(self)>>
        \o [k \in 1..Len(self.order) |->
               nfa_validate_row(self, self.transitions[self.order[k]])]
        \o <<validate_initial_state(self), validate_final_states(self)>>)

-----------------------------------------------------------------------------
(* Acceptance of an input string (automata/dfa.py, automata/nfa.py) *)

\* Automaton._validate_input_symbol
validate_input_symbol(self, symbol) ==
    IF symbol \notin self.symbols THEN Raise("InvalidSymbolError") ELSE Return({})

\* the body of the symbol loop of DFA.validate_input: the symbol check, then
\* the one transition of current_state on the symbol
dfa_read_symbol(self, current_state, symbol) ==
    IF validate_input_symbol(self, symbol).raised # "none"
    THEN [raised |-> "InvalidSymbolError", value |-> current_state]
    ELSE Return(self.transitions[current_state][symbol])

\* a variant of the end of DFA.validate_input that tests the initial state
\* instead of the stop state
dfa_stop_tests_initial_state(self, current_state) ==
    IF self.initial_state \notin self.final_states
    THEN [raised |-> "FinalStateError", value |-> current_state]
    ELSE Return(current_state)

\* the end of DFA.validate_input: the stop state is returned if it is final
dfa_stop(self, current_state) ==
    IF current_state \notin self.final_states
    THEN [raised |-> "FinalStateError", value |-> current_state]
    ELSE Return(current_state)

\* DFA.validate_input from the configuration (current_state, rest of input)
RECURSIVE dfa_validate_input_from(_, _, _)
dfa_validate_input_from(self, current_state, input_str) ==
    IF Len(input_str) = 0 THEN dfa_stop(self, current_state)
    ELSE LET r == dfa_read_symbol(self, current_state, Head(input_str))
         IN IF r.raised # "none" THEN r
            ELSE dfa_validate_input_from(self, r.value, Tail(input_str))

\* DFA.validate_input
dfa_validate_input(self, input_str) ==
    dfa_validate_input_from(self, self.initial_state, input_str)

\* the set of current states NFA.validate_input starts from
nfa_start_states(self) == {self.initial_state}

\* the body of the symbol loop of NFA.validate_input
nfa_read_symbol(self, current_states, symbol) ==
    IF validate_input_symbol(self, symbol).raised # "none"
    THEN [raised |-> "InvalidSymbolError", value |-> current_states]
    ELSE LET r == get_next_current_states(self, current_states, symbol)
         IN IF r.raised # "none"
            THEN [raised |-> r.raised, value |-> current_states]
            ELSE r

\* the end of NFA.validate_input: the stop states are returned if one is final
nfa_stop(self, current_states) ==
    IF current_states \cap self.final_states = {}
    THEN [raised |-> "FinalStateError", value |-> current_states]
    ELSE Return(current_states)

\* NFA.validate_input from the configuration (current_states, rest of input)
RECURSIVE nfa_validate_input_from(_, _, _)
nfa_validate_input_from(self, current_states, input_str) ==
    IF Len(input_str) = 0 THEN nfa_stop(self, current_states)
    ELSE LET r == nfa_read_symbol(self, current_states, Head(input_str))
         IN IF r.raised # "none" THEN r
            ELSE nfa_validate_input_from(self, r.value, Tail(input_str))

\* NFA.validate_input
nfa_validate_input(self, input_str) ==
    nfa_validate_input_from(self, nfa_start_states(self), input_str)

-----------------------------------------------------------------------------
(* Conversions (automata/nfa.py, automata/fa/dfa.py) *)

\* '{{{}}}'.format(','.join(states)) for a tuple of state names: the label
\* as its sequence of tokens
stringify_tuple(names) == <<"{">> \o Join(names) \o <<"}">>

\* DFA._stringify_states for a set of state names: sorted, then joined
stringify_states(states) == stringify_tuple(Sorted(states))

\* the automaton __init__ builds from formal parameters, before validation
FormalParams(states, symbols, transitions, order, initial_state, final_states) ==
    [states |-> states, symbols |-> symbols, transitions |-> transitions,
     order |-> order, initial_state |-> initial_state,
     final_states |-> final_states]

\* NFA._init_from_dfa: every DFA transition to end_state becomes an NFA
\* transition to {end_state}; the NFA is then built from formal parameters
nfa_init_from_dfa(dfa) ==
    LET nfa_transitions ==
            [start_state \in DOMAIN dfa.transitions |->
                [symbol \in DOMAIN dfa.transitions[start_state] |->
                    {dfa.transitions[start_state][symbol]}]]
    IN FormalParams(dfa.states, dfa.symbols, nfa_transitions, dfa.order,
                    dfa.initial_state, dfa.final_states)

-----------------------------------------------------------------------------
(* Automata the model is run on *)

\* a placeholder for an automaton that has not been built
NoAutomaton == FormalParams({}, {}, <<>>, <<>>, "", {})

\* the alphabets of the enumerated automata
Alphabets == {{}, {"a"}, {"a", "b"}}

\* the state sets of the enumerated automata
StateSets == {{"q0"}, {"q0", "q1"}}

\* the sets of end states in the enumerated NFA tables: every subset of S;
\* with two symbols an empty set of end states is left out (such a key is
\* then given as absent), which keeps the number of tables small
EndStateSets(S, A) == IF Cardinality(A) < 2 THEN SUBSET S ELSE (SUBSET S) \ {{}}

\* the transition tables of NFAs over the states S and alphabet A: rows
\* partial or not, with or without lambda transitions
NFATables(S, A) == [S -> Rows(A \cup {Lambda}, EndStateSets(S, A))]

\* the transition tables of DFAs over the states S and alphabet A
DFATables(S, A) == [S -> [A -> S]]

\* the NFA of the test suite: it matches "a", "aaa" and every string of an
\* even, positive number of "a"
TestNFAStates == {"q0", "q1", "q2", "q3", "q4", "q5", "q6", "q7", "q8", "q9"}
TestNFA ==
    FormalParams(
        TestNFAStates, {"a"},
        [s \in TestNFAStates |->
            CASE s = "q0" -> [x \in {"a"} |-> {"q1", "q8"}]
              [] s = "q1" -> [x \in {"a", Lambda} |-> IF x = "a" THEN {"q2"} ELSE {"q6"}]
              [] s = "q2" -> [x \in {"a"} |-> {"q3"}]
              [] s = "q3" -> [x \in {Lambda} |-> {"q4"}]
              [] s = "q4" -> [x \in {"a"} |-> {"q5"}]
              [] s = "q5" -> <<>>
              [] s = "q6" -> [x \in {"a"} |-> {"q7"}]
              [] s = "q7" -> <<>>
              [] s = "q8" -> [x \in {"a"} |-> {"q9"}]
              [] s = "q9" -> [x \in {"a"} |-> {"q8"}]],
        <<"q0", "q1", "q2", "q3", "q4", "q5", "q6", "q7", "q8", "q9">>,
        "q0", {"q4", "q6", "q9"})

\* the parity DFA: 0 keeps the state, 1 switches it
ParityDFA ==
    FormalParams({"S1", "S2"}, {"0", "1"},
                 [s \in {"S1", "S2"} |->
                     [x \in {"0", "1"} |->
                         IF x = "0" THEN s ELSE IF s = "S1" THEN "S2" ELSE "S1"]],
                 <<"S1", "S2">>, "S1", {"S1"})

-----------------------------------------------------------------------------
(* State *)

VARIABLES
    origin,             \* "nfa": the NFA was given; "dfa": it is lifted from d
    d,                  \* a DFA built from formal parameters
    nfa,                \* the NFA given to DFA.__init__
    pc,                 \* where DFA._init_from_nfa is
    i,                  \* the loop counter of _init_from_nfa
    symbol_order,       \* the order in which `for symbol in nfa.symbols` iterates
    state_queue,        \* the worklist, a FIFO queue of sets of NFA states
    dfa_states, dfa_transitions, dfa_order, dfa_initial_state, dfa_final_states,
    dfa,                \* the DFA built by the conversion
    error,              \* the exception the conversion raised, "none" if none
    dequeued            \* the subsets state_queue.get() returned so far, in order

convVars == <<origin, d, nfa, pc, i, symbol_order, state_queue, dfa_states,
              dfa_transitions, dfa_order, dfa_initial_state, dfa_final_states,
              dfa, error, dequeued>>

VARIABLES
    params,             \* formal parameters given to DFA.__init__
    nfa_params,         \* formal parameters given to NFA.__init__
    dfa_result,         \* what DFA.__init__ did with params
    nfa_result          \* what NFA.__init__ did with nfa_params

valVars == <<params, nfa_params, dfa_result, nfa_result>>

VARIABLES
    run_kind,           \* "dfa" or "nfa": the automaton validate_input runs on
    run_pc,             \* where validate_input is: "start", "loop" or "ended"
    run_fa,             \* that automaton
    input_str,          \* the input string
    pos,                \* the number of symbols the loop has taken from it
    current,            \* current_state (DFA) or current_states (NFA)
    taken,              \* the number of transitions followed
    outcome             \* the return value or the exception, once ended

runVars == <<run_kind, run_pc, run_fa, input_str, pos, current, taken, outcome>>

VARIABLES
    closure_nfa,        \* the NFA _add_lambda_transition_states is called on
    closure_arg,        \* its argument `states`
    closure_result,     \* what the call returned or raised
    closure_again       \* what the call on `states` and the returned states gave

cloVars == <<closure_nfa, closure_arg, closure_result, closure_again>>

VARIABLES
    heap,               \* the objects in memory: heap[n] is the object with id n
    obj_kind,           \* "dfa" or "nfa": the class of the automaton object
    caller_obj,         \* the collections the caller gave to __init__
    fa_obj,             \* the automaton object: its fields
    built,              \* the fields' values when its construction returned
    mutations,          \* the number of changes the caller made afterwards
    nfa_obj,            \* the NFA object built from the DFA object, NFA(dfa)
    runs                \* the acceptance runs in progress on the automaton

heapVars == <<heap, obj_kind, caller_obj, fa_obj, built, mutations, nfa_obj,
              runs>>

vars == <<convVars, valVars, runVars, cloVars, heapVars>>

\* the fields of an object that has not been built
NoRefs == [states |-> 0, symbols |-> 0, transitions |-> 0, initial_state |-> "",
           final_states |-> 0]

\* the value of a result the operation has not produced yet
NotRun == [error |-> "not_run", check |-> "none"]
Running == [raised |-> "running", value |-> {}]

\* the parts of the state an operation does not use stay as they are
ValIdle ==
    /\ params = NoAutomaton /\ nfa_params = NoAutomaton
    /\ dfa_result = NotRun /\ nfa_result = NotRun
RunIdle ==
    /\ run_kind = "none" /\ run_pc = "off" /\ run_fa = NoAutomaton
    /\ input_str = <<>>
    /\ pos = 0 /\ current = {} /\ taken = 0 /\ outcome = Running
CloIdle ==
    /\ closure_nfa = NoAutomaton /\ closure_arg = {} /\ closure_result = Running
    /\ closure_again = Running
HeapIdle ==
    /\ heap = <<>> /\ obj_kind = "none" /\ caller_obj = NoRefs /\ fa_obj = NoRefs
    /\ built = NoAutomaton /\ mutations = 0 /\ nfa_obj = NoRefs /\ runs = <<>>

-----------------------------------------------------------------------------
(* NFA -> DFA: DFA._init_from_nfa as a sequence of steps *)

\* nothing of the conversion has run
ConvIdle ==
    /\ i = 0
    /\ symbol_order = <<>>
    /\ state_queue = <<>>
    /\ dfa_states = {}
    /\ dfa_transitions = <<>>
    /\ dfa_order = <<>>
    /\ dfa_initial_state = <<>>
    /\ dfa_final_states = {}
    /\ dfa = NoAutomaton
    /\ error = "none"
    /\ dequeued = <<>>

\* construction from formal parameters succeeded
Constructed(x, validation) == validation.error = "none"

\* an NFA built from formal parameters is given
InitNfa ==
    /\ origin = "nfa"
    /\ \E S \in StateSets, A \in Alphabets :
          \E T \in NFATables(S, A), q \in S, F \in SUBSET S :
              nfa = FormalParams(S, A, T, Sorted(S), q, F)
    /\ Constructed(nfa, validate_automaton(nfa))
    /\ d = NoAutomaton
    /\ pc = "start"

\* a DFA built from formal parameters is given, to be converted to an NFA
InitDfa ==
    /\ origin = "dfa"
    /\ \/ \E S \in StateSets, A \in Alphabets :
             \E T \in DFATables(S, A), o \in Orders(S), q \in S, F \in SUBSET S :
                 d = FormalParams(S, A, T, o, q, F)
       \/ d = ParityDFA
    /\ Constructed(d, validate_self(d))
    /\ nfa = NoAutomaton
    /\ pc = "lift"

Init ==
    (InitNfa \/ InitDfa) /\ ConvIdle /\ ValIdle /\ RunIdle /\ CloIdle /\ HeapIdle

\* NFA(d): NFA._init_from_dfa, ending with validate_automaton
NfaFromDfa ==
    /\ pc = "lift"
    /\ LET n == nfa_init_from_dfa(d)
           v == validate_automaton(n)
       IN IF v.error = "none"
          THEN nfa' = n /\ pc' = "start" /\ error' = error
          ELSE nfa' = nfa /\ pc' = "raised" /\ error' = v.error
    /\ UNCHANGED <<origin, d, i, symbol_order, state_queue, dfa_states,
                   dfa_transitions, dfa_order, dfa_initial_state,
                   dfa_final_states, dfa, dequeued>>
    /\ UNCHANGED <<valVars, runVars, cloVars, heapVars>>

\* the queue holds the initial singleton, nothing is labelled yet
max_num_dfa_states == Pow2(Cardinality(nfa.states))

\* lines before the loop: the initial label and the seeded queue
InitFromNfa ==
    /\ pc = "start"
    /\ dfa_states' = {}
    /\ dfa_transitions' = <<>>
    /\ dfa_order' = <<>>
    /\ dfa_initial_state' = stringify_tuple(<<nfa.initial_state>>)
    /\ dfa_final_states' = {}
    /\ state_queue' = <<{nfa.initial_state}>>
    /\ i' = 0
    /\ symbol_order' \in Orders(nfa.symbols)
    /\ dequeued' = <<>>
    /\ pc' = "loop"
    /\ UNCHANGED <<origin, d, nfa, dfa, error>>
    /\ UNCHANGED <<valVars, runVars, cloVars, heapVars>>

\* the subsets one iteration computes, one per symbol in iteration order
next_states_of(current_states) ==
    [k \in 1..Len(symbol_order) |->
        get_next_current_states(nfa, current_states, symbol_order[k])]

\* one iteration of the loop: queue.get() (which blocks while the queue is
\* empty), the label, the final mark, then one transition and one put per
\* symbol. When _get_next_current_states raises, the exception leaves
\* _init_from_nfa after the get and the puts that came before it, and no DFA
\* is built from the dfa_* locals
LoopIteration ==
    /\ pc = "loop"
    /\ i < max_num_dfa_states
    /\ state_queue # <<>>
    /\ LET current_states == Head(state_queue)
           current_state_name == stringify_states(current_states)
           nexts == next_states_of(current_states)
       IN IF \E k \in 1..Len(nexts) : nexts[k].raised # "none"
          THEN /\ pc' = "raised"
               /\ error' = "RecursionError"
               /\ LET first == CHOOSE k \in 1..Len(nexts) :
                                   /\ nexts[k].raised # "none"
                                   /\ \A j \in 1..(k - 1) :
                                          nexts[j].raised = "none"
                  IN state_queue' =
                         Tail(state_queue)
                             \o [k \in 1..(first - 1) |-> nexts[k].value]
               /\ dequeued' = Append(dequeued, current_states)
               /\ UNCHANGED <<i, dfa_states, dfa_transitions,
                              dfa_order, dfa_final_states>>
          ELSE /\ dfa_states' = dfa_states \cup {current_state_name}
               /\ dfa_transitions' =
                      [name \in DOMAIN dfa_transitions \cup {current_state_name} |->
                          IF name = current_state_name
                          THEN [symbol \in nfa.symbols |->
                                   stringify_states(
                                       nexts[CHOOSE k \in 1..Len(nexts) :
                                                 symbol_order[k] = symbol].value)]
                          ELSE dfa_transitions[name]]
               /\ dfa_order' =
                      IF current_state_name \in DOMAIN dfa_transitions
                      THEN dfa_order
                      ELSE Append(dfa_order, current_state_name)
               /\ dfa_final_states' =
                      IF current_states \cap nfa.final_states # {}
                      THEN dfa_final_states \cup {stringify_states(current_states)}
                      ELSE dfa_final_states
               /\ state_queue' =
                      Tail(state_queue) \o [k \in 1..Len(nexts) |-> nexts[k].value]
               /\ i' = i + 1
               /\ dequeued' = Append(dequeued, current_states)
               /\ UNCHANGED <<pc, error>>
    /\ UNCHANGED <<origin, d, nfa, symbol_order, dfa_initial_state, dfa>>
    /\ UNCHANGED <<valVars, runVars, cloVars, heapVars>>

\* a variant of the end of the conversion that adds to the states every
\* label a recorded transition ends in, dequeued or not
ConstructWithEndStates ==
    /\ pc = "loop"
    /\ i = max_num_dfa_states
    /\ LET ends == {dfa_transitions[name][symbol] :
                        name \in DOMAIN dfa_transitions, symbol \in nfa.symbols}
           rows == [name \in DOMAIN dfa_transitions \cup ends |->
                       IF name \in DOMAIN dfa_transitions
                       THEN dfa_transitions[name]
                       ELSE [symbol \in nfa.symbols |-> name]]
           x == FormalParams(dfa_states \cup ends, nfa.symbols, rows,
                             dfa_order, dfa_initial_state, dfa_final_states)
       IN dfa' = x /\ pc' = "done" /\ error' = error
    /\ UNCHANGED <<origin, d, nfa, i, symbol_order, state_queue, dfa_states,
                   dfa_transitions, dfa_order, dfa_initial_state,
                   dfa_final_states, dequeued>>
    /\ UNCHANGED <<valVars, runVars, cloVars, heapVars>>

\* after the loop: self.__init__ with the collected parameters, which ends
\* with validate_self
Construct ==
    /\ pc = "loop"
    /\ i = max_num_dfa_states
    /\ LET x == FormalParams(dfa_states, nfa.symbols, dfa_transitions,
                             dfa_order, dfa_initial_state, dfa_final_states)
           v == validate_self(x)
       IN IF v.error = "none"
          THEN dfa' = x /\ pc' = "done" /\ error' = error
          ELSE dfa' = dfa /\ pc' = "raised" /\ error' = v.error
    /\ UNCHANGED <<origin, d, nfa, i, symbol_order, state_queue, dfa_states,
                   dfa_transitions, dfa_order, dfa_initial_state,
                   dfa_final_states, dequeued>>
    /\ UNCHANGED <<valVars, runVars, cloVars, heapVars>>

\* queue.get() found the queue empty: the call never returns
Blocked == pc = "loop" /\ i < max_num_dfa_states /\ state_queue = <<>>

Next == NfaFromDfa \/ InitFromNfa \/ LoopIteration \/ Construct

Spec == Init /\ [][Next]_vars

-----------------------------------------------------------------------------
(* Construction from formal parameters: SpecValidate *)

\* no conversion is running
ConvOff ==
    /\ origin = "none" /\ d = NoAutomaton /\ nfa = NoAutomaton /\ pc = "off"
    /\ ConvIdle

\* the dicts of DFA rows a caller may give: rows for any of the names of Q,
\* each row with any of the symbols of Sigma as keys and names of Q as end
\* states, valid for the given states and alphabet or not
RawDFATables == UNION {[K -> Rows(Sigma, Q)] : K \in SUBSET Q}

\* the same formal parameters for an NFA: every end state as a singleton
Lift(p) ==
    [p EXCEPT !.transitions =
        [k \in DOMAIN p.transitions |->
            [a \in DOMAIN p.transitions[k] |-> {p.transitions[k][a]}]]]

\* a row with the lambda transition to {q} added
WithLambda(p, k, q) ==
    [p EXCEPT !.transitions =
        [x \in DOMAIN p.transitions |->
            IF x = k
            THEN [a \in DOMAIN p.transitions[x] \cup {Lambda} |->
                     IF a = Lambda THEN {q} ELSE p.transitions[x][a]]
            ELSE p.transitions[x]]]

\* a caller gives formal parameters, valid or not, to DFA.__init__ and the
\* same parameters, with sets of end states and at most one lambda
\* transition, to NFA.__init__
InitValidate ==
    /\ \E S \in StateSets, A \in Alphabets, T \in RawDFATables :
          \E o \in Orders(DOMAIN T), q \in Q, F \in SUBSET Q :
              params = FormalParams(S, A, T, o, q, F)
    /\ \/ nfa_params = Lift(params)
       \/ \E k \in DOMAIN params.transitions, q \in Q :
             nfa_params = WithLambda(Lift(params), k, q)
    /\ dfa_result = NotRun
    /\ nfa_result = NotRun
    /\ ConvOff /\ RunIdle /\ CloIdle /\ HeapIdle

\* DFA(**params): DFA._init_from_formal_params, which copies the parameters
\* and ends with validate_self
ConstructDFA ==
    /\ dfa_result = NotRun
    /\ dfa_result' = validate_self(params)
    /\ UNCHANGED <<params, nfa_params, nfa_result, convVars, runVars, cloVars,
                   heapVars>>

\* NFA(**nfa_params): NFA.__init__, which copies the parameters and ends
\* with validate_automaton
ConstructNFA ==
    /\ nfa_result = NotRun
    /\ nfa_result' = validate_automaton(nfa_params)
    /\ UNCHANGED <<params, nfa_params, dfa_result, convVars, runVars, cloVars,
                   heapVars>>

NextValidate == ConstructDFA \/ ConstructNFA

SpecValidate == InitValidate /\ [][NextValidate]_vars

-----------------------------------------------------------------------------
(* Acceptance tests step by step: SpecAccept *)

\* a symbol that is in no alphabet
Outsider == "c"

\* the inputs of the scenarios of the specification and of the test suite
ParityInputs == {<<"1", "0", "1", "0">>, <<"1", "0", "1">>}
TestNFAInputs ==
    {[k \in 1..5 |-> "a"], [k \in 1..6 |-> "a"], <<"a", "a", "b">>}

\* the inputs given to automaton x: every string of at most MaxLen symbols
\* of its alphabet and the outsider, and the scenario inputs
Inputs(x) ==
    Words(x.symbols \cup {Outsider}, MaxLen)
        \cup (IF x = ParityDFA THEN ParityInputs ELSE {})
        \cup (IF x = TestNFA THEN TestNFAInputs ELSE {})

\* a valid DFA and an input
InitAcceptDfa ==
    /\ run_kind = "dfa"
    /\ \/ \E S \in StateSets, A \in Alphabets :
             \E T \in DFATables(S, A), q \in S, F \in SUBSET S :
                 run_fa = FormalParams(S, A, T, Sorted(S), q, F)
       \/ run_fa = ParityDFA
    /\ Constructed(run_fa, validate_self(run_fa))

\* a valid NFA over at most one symbol, or the NFA of the test suite, and an
\* input
InitAcceptNfa ==
    /\ run_kind = "nfa"
    /\ \/ \E S \in StateSets, A \in {{}, {"a"}} :
             \E T \in NFATables(S, A), q \in S, F \in SUBSET S :
                 run_fa = FormalParams(S, A, T, Sorted(S), q, F)
       \/ run_fa = TestNFA
    /\ Constructed(run_fa, validate_automaton(run_fa))

InitAccept ==
    /\ InitAcceptDfa \/ InitAcceptNfa
    /\ input_str \in Inputs(run_fa)
    /\ run_pc = "start"
    /\ pos = 0
    /\ current = {}
    /\ taken = 0
    /\ outcome = Running
    /\ ConvOff /\ ValIdle /\ CloIdle /\ HeapIdle

\* the first line of validate_input: the initial configuration
StartRun ==
    /\ run_pc = "start"
    /\ current' = IF run_kind = "dfa" THEN run_fa.initial_state
                  ELSE nfa_start_states(run_fa)
    /\ run_pc' = "loop"
    /\ UNCHANGED <<run_kind, run_fa, input_str, pos, taken, outcome>>
    /\ UNCHANGED <<convVars, valVars, cloVars, heapVars>>

\* one iteration of `for symbol in input_str`: the symbol check and the move
ReadSymbol ==
    /\ run_pc = "loop"
    /\ pos < Len(input_str)
    /\ LET symbol == input_str[pos + 1]
           r == IF run_kind = "dfa"
                THEN dfa_read_symbol(run_fa, current, symbol)
                ELSE nfa_read_symbol(run_fa, current, symbol)
       IN IF r.raised # "none"
          THEN /\ outcome' = r
               /\ run_pc' = "ended"
               /\ UNCHANGED <<current, taken, pos>>
          ELSE /\ current' = r.value
               /\ taken' = taken + 1
               /\ pos' = pos + 1
               /\ UNCHANGED <<outcome, run_pc>>
    /\ UNCHANGED <<run_kind, run_fa, input_str>>
    /\ UNCHANGED <<convVars, valVars, cloVars, heapVars>>

\* after the loop: the final-state test, then the return or the exception
Stop ==
    /\ run_pc = "loop"
    /\ pos = Len(input_str)
    /\ outcome' = IF run_kind = "dfa" THEN dfa_stop(run_fa, current)
                  ELSE nfa_stop(run_fa, current)
    /\ run_pc' = "ended"
    /\ UNCHANGED <<run_kind, run_fa, input_str, pos, current, taken>>
    /\ UNCHANGED <<convVars, valVars, cloVars, heapVars>>

NextAccept == StartRun \/ ReadSymbol \/ Stop

SpecAccept == InitAccept /\ [][NextAccept]_vars

-----------------------------------------------------------------------------
(* The lambda closure on its own: SpecClosure *)

\* the state sets of the NFAs the closure is computed on
ClosureStateSets == {{"q0", "q1"}, {"q0", "q1", "q2"}}

\* a valid NFA with lambda transitions only, and a set of its states
InitClosure ==
    /\ \E S \in ClosureStateSets :
          /\ \E T \in NFATables(S, {}) :
                closure_nfa = FormalParams(S, {}, T, Sorted(S), "q0", {})
          /\ closure_arg \in SUBSET S
    /\ Constructed(closure_nfa, validate_automaton(closure_nfa))
    /\ closure_result = Running
    /\ closure_again = Running
    /\ ConvOff /\ ValIdle /\ RunIdle /\ HeapIdle

\* nfa._add_lambda_transition_states(closure_arg)
ComputeClosure ==
    /\ closure_result = Running
    /\ closure_result' = add_lambda_transition_states(closure_nfa, closure_arg, 1)
    /\ UNCHANGED <<closure_nfa, closure_arg, closure_again, convVars, valVars,
                   runVars, heapVars>>

\* the closure of the closure: the call again, on `states` together with the
\* states the first call returned
ComputeClosureAgain ==
    /\ closure_result.raised = "none"
    /\ closure_again = Running
    /\ closure_again' =
           add_lambda_transition_states(
               closure_nfa, closure_arg \cup closure_result.value, 1)
    /\ UNCHANGED <<closure_nfa, closure_arg, closure_result, convVars, valVars,
                   runVars, heapVars>>

NextClosure == ComputeClosure \/ ComputeClosureAgain

SpecClosure == InitClosure /\ [][NextClosure]_vars

-----------------------------------------------------------------------------
(* Objects in memory: sets and dicts with an identity *)

\* a set object and a dict object
SetObj(S) == [kind |-> "set", elems |-> S, items |-> <<>>]
DictObj(f) == [kind |-> "dict", elems |-> {}, items |-> f]

\* what a dict holds under a key: a reference to an object, or a string
Obj(n) == [id |-> n, name |-> ""]
Str(s) == [id |-> 0, name |-> s]

\* the keys of a dict in the order a loop over it takes them
KeyOrder == <<"", "a", "b", "c", "q0", "q1", "q2">>
Keys(K) == SelectSeq(KeyOrder, LAMBDA x : x \in K)
IndexOf(seq, x) == CHOOSE j \in 1..Len(seq) : seq[j] = x

\* new row dicts for the rows of `table`, which gives for every start state
\* and symbol the end states (NFA: a new set each) or the end state (DFA: a
\* string); `done` holds the rows made so far
RECURSIVE alloc_rows(_, _, _, _, _)
alloc_rows(h, kind, table, keys, done) ==
    IF keys = <<>> THEN [heap |-> h, items |-> done]
    ELSE LET start_state == Head(keys)
             paths == table[start_state]
             symbols == Keys(DOMAIN paths)
             row_id == Len(h) + 1
             sets == IF kind = "nfa"
                     THEN [j \in 1..Len(symbols) |-> SetObj(paths[symbols[j]])]
                     ELSE <<>>
             row == DictObj([a \in DOMAIN paths |->
                                IF kind = "nfa"
                                THEN Obj(row_id + IndexOf(symbols, a))
                                ELSE Str(paths[a])])
         IN alloc_rows(h \o <<row>> \o sets, kind, table, Tail(keys),
                       done @@ (start_state :> Obj(row_id)))

\* a new transitions dict with new rows (and, NFA, new sets) for `table`
alloc_table(h, kind, table) ==
    LET r == alloc_rows(h, kind, table, Keys(DOMAIN table), <<>>)
    IN [heap |-> Append(r.heap, DictObj(r.items)), id |-> Len(r.heap) + 1]

\* the rows' contents of the transitions dict t: the end states of an NFA,
\* the end state of a DFA
NfaTableAt(h, t) ==
    [start_state \in DOMAIN h[t].items |->
        LET paths == h[h[t].items[start_state].id].items
        IN [symbol \in DOMAIN paths |-> h[paths[symbol].id].elems]]
DfaTableAt(h, t) ==
    [start_state \in DOMAIN h[t].items |->
        LET paths == h[h[t].items[start_state].id].items
        IN [symbol \in DOMAIN paths |-> paths[symbol].name]]

\* the collections a caller builds for the formal parameters p
store_params(h, kind, p) ==
    LET h1 == h \o <<SetObj(p.states), SetObj(p.symbols), SetObj(p.final_states)>>
        t == alloc_table(h1, kind, p.transitions)
    IN [heap |-> t.heap,
        refs |-> [states |-> Len(h) + 1, symbols |-> Len(h) + 2,
                  final_states |-> Len(h) + 3, transitions |-> t.id,
                  initial_state |-> p.initial_state]]

\* set(x) and x.copy() of a set: a new set object with the same elements
copy_set(h, x) == Append(h, SetObj(h[x].elems))

\* a variant of NFA._clone_transitions that copies the transitions dict but
\* not its rows, as dict(transitions) does
clone_transitions_shallow(h, t) ==
    [heap |-> Append(h, DictObj(h[t].items)), id |-> Len(h) + 1]

\* NFA._clone_transitions: a new dict, a new row for every start state and
\* a new set for every symbol of a row
clone_transitions(h, t) == alloc_table(h, "nfa", NfaTableAt(h, t))

\* copy.deepcopy(transitions) of a DFA: a new dict and a new row for every
\* start state; the end states are strings
deepcopy_transitions(h, t) == alloc_table(h, "dfa", DfaTableAt(h, t))

\* DFA._init_from_formal_params and the last branch of NFA.__init__: the
\* fields are copies of the arguments
init_from_formal_params(h, kind, args) ==
    LET h1 == copy_set(h, args.states)
        h2 == copy_set(h1, args.symbols)
        t == IF kind = "nfa" THEN clone_transitions(h2, args.transitions)
             ELSE deepcopy_transitions(h2, args.transitions)
        h3 == copy_set(t.heap, args.final_states)
    IN [heap |-> h3,
        refs |-> [states |-> Len(h1), symbols |-> Len(h2),
                  transitions |-> t.id, initial_state |-> args.initial_state,
                  final_states |-> Len(h3)]]

\* a variant of the loop of NFA._init_from_dfa that also gives every state a
\* lambda transition to itself
lift_table_with_lambda(h, t) ==
    [start_state \in DOMAIN h[t].items |->
        LET paths == h[h[t].items[start_state].id].items
        IN [symbol \in DOMAIN paths \cup {Lambda} |->
               IF symbol = Lambda THEN {start_state} ELSE {paths[symbol].name}]]

\* the loop of NFA._init_from_dfa: nfa_transitions[start_state][symbol] is
\* {end_state}
lift_table(h, t) ==
    [start_state \in DOMAIN h[t].items |->
        LET paths == h[h[t].items[start_state].id].items
        IN [symbol \in DOMAIN paths |-> {paths[symbol].name}]]

\* NFA._init_from_dfa: nfa_transitions is built, then __init__ is called
\* with it and with the DFA's own states, symbols and final states
init_from_dfa(h, dfa_refs) ==
    LET t == alloc_table(h, "nfa", lift_table(h, dfa_refs.transitions))
    IN init_from_formal_params(
           t.heap, "nfa", [dfa_refs EXCEPT !.transitions = t.id])

\* the values of the fields of an automaton object
Deref(h, kind, refs) ==
    LET table == IF kind = "nfa" THEN NfaTableAt(h, refs.transitions)
                 ELSE DfaTableAt(h, refs.transitions)
    IN FormalParams(h[refs.states].elems, h[refs.symbols].elems, table,
                    Sorted(DOMAIN table), refs.initial_state,
                    h[refs.final_states].elems)

\* the objects reachable from the fields `refs`
ObjectsOf(h, refs) ==
    LET rows == {h[refs.transitions].items[k].id :
                     k \in DOMAIN h[refs.transitions].items}
        cells == UNION {{h[r].items[a].id : a \in DOMAIN h[r].items} : r \in rows}
    IN ({refs.states, refs.symbols, refs.final_states, refs.transitions}
            \cup rows \cup cells) \ {0}

-----------------------------------------------------------------------------
(* Construction from the caller's collections, which the caller then
   changes, and NFA(dfa) on the object built: SpecCopy *)

\* the most changes the caller makes to its collections
MaxMutations == 2

\* names and keys the caller adds to its collections
MutNames == {"q2"}
MutKeys == {"q2"}

\* the tables of the NFAs built in SpecCopy: every row has "a", lambda, both
\* or neither, each to {q1}
CopyNFATables == [{"q0", "q1"} -> Rows({"a", Lambda}, {{"q1"}})]

\* no acceptance run is in progress
NoRuns == runs = <<>>

\* a caller holds the collections of valid formal parameters of a DFA or of
\* an NFA
InitCopy ==
    /\ \E kind \in {"dfa", "nfa"} :
          /\ obj_kind = kind
          /\ \E p \in IF kind = "nfa"
                      THEN {FormalParams({"q0", "q1"}, {"a"}, T, <<"q0", "q1">>,
                                         "q0", {"q1"}) : T \in CopyNFATables}
                      ELSE UNION {{FormalParams(S, A, T, Sorted(S), "q0", F) :
                                      T \in DFATables(S, A), F \in {{"q0"}}} :
                                  S \in StateSets, A \in Alphabets} :
                /\ (IF kind = "nfa" THEN validate_automaton(p)
                    ELSE validate_self(p)) = Valid
                /\ heap = store_params(<<>>, kind, p).heap
                /\ caller_obj = store_params(<<>>, kind, p).refs
    /\ fa_obj = NoRefs
    /\ built = NoAutomaton
    /\ mutations = 0
    /\ nfa_obj = NoRefs
    /\ NoRuns
    /\ ConvOff /\ ValIdle /\ RunIdle /\ CloIdle

\* DFA(**params) or NFA(**params): the fields are copied from the caller's
\* collections and validated
ConstructFromParams ==
    /\ fa_obj = NoRefs
    /\ LET r == init_from_formal_params(heap, obj_kind, caller_obj)
           v == Deref(r.heap, obj_kind, r.refs)
       IN /\ (IF obj_kind = "nfa" THEN validate_automaton(v)
              ELSE validate_self(v)) = Valid
          /\ heap' = r.heap
          /\ fa_obj' = r.refs
          /\ built' = v
    /\ UNCHANGED <<obj_kind, caller_obj, mutations, nfa_obj, runs>>
    /\ UNCHANGED <<convVars, valVars, runVars, cloVars>>

\* the caller changes one of its collections: it adds a name to a set or
\* discards one, deletes a key of a dict, stores under a key what another key
\* holds, or stores a state name under a symbol of a DFA row
CallerMutates ==
    /\ fa_obj # NoRefs
    /\ mutations < MaxMutations
    /\ \E x \in ObjectsOf(heap, caller_obj) :
          IF heap[x].kind = "set"
          THEN \/ \E n \in MutNames : heap' = [heap EXCEPT ![x].elems = @ \cup {n}]
               \/ \E n \in heap[x].elems : heap' = [heap EXCEPT ![x].elems = @ \ {n}]
          ELSE LET items == heap[x].items
               IN \/ \E k \in DOMAIN items :
                        heap' = [heap EXCEPT ![x].items =
                                    [j \in DOMAIN items \ {k} |-> items[j]]]
                  \/ \E k1 \in DOMAIN items \cup MutKeys, k2 \in DOMAIN items :
                        /\ k1 # k2
                        /\ heap' = [heap EXCEPT ![x].items =
                                       [j \in DOMAIN items \cup {k1} |->
                                           IF j = k1 THEN items[k2] ELSE items[j]]]
                  \/ \E k \in DOMAIN items, n \in MutNames :
                        /\ items[k].id = 0
                        /\ heap' = [heap EXCEPT ![x].items[k] = Str(n)]
    /\ mutations' = mutations + 1
    /\ UNCHANGED <<obj_kind, caller_obj, fa_obj, built, nfa_obj, runs>>
    /\ UNCHANGED <<convVars, valVars, runVars, cloVars>>

\* NFA(dfa) on the DFA object: NFA._init_from_dfa, which ends with
\* validate_automaton
LiftDfaObject ==
    /\ obj_kind = "dfa"
    /\ fa_obj # NoRefs
    /\ nfa_obj = NoRefs
    /\ LET r == init_from_dfa(heap, fa_obj)
       IN /\ validate_automaton(Deref(r.heap, "nfa", r.refs)) = Valid
          /\ heap' = r.heap
          /\ nfa_obj' = r.refs
    /\ UNCHANGED <<obj_kind, caller_obj, fa_obj, built, mutations, runs>>
    /\ UNCHANGED <<convVars, valVars, runVars, cloVars>>

NextCopy == ConstructFromParams \/ CallerMutates \/ LiftDfaObject

SpecCopy == InitCopy /\ [][NextCopy]_vars

-----------------------------------------------------------------------------
(* Several acceptance runs on one automaton object, their steps
   interleaved: SpecConcurrent *)

\* the number of acceptance runs in progress on the automaton
NumRuns == 2

\* the inputs of the runs
ConcInputs == {<<"a">>, <<"a", "a">>, <<"a", Outsider>>}

\* the tables of the NFAs the runs are on: every row has "a", lambda, both
\* or neither; those of q0 lead to {q0} or to {q1}, those of q1 to {q0}
ConcNFATables ==
    {T \in [{"q0", "q1"} -> Rows({"a", Lambda}, {{"q0"}, {"q1"}})] :
        \A a \in DOMAIN T["q1"] : T["q1"][a] = {"q0"}}

\* a cell of memory that holds no object
Free == [kind |-> "free", elems |-> {}, items |-> <<>>]

\* the two cells in which the sets of run r are made, in turn: a run refers
\* to one set at a time, and the set it no longer refers to is freed
Cell(h, r, k) == Len(h) - 2 * NumRuns + 2 * (r - 1) + 1 + (k % 2)
CellsOf(h, r) == {Cell(h, r, 0), Cell(h, r, 1)}

\* set.update(elems) on the set object `target`
update(h, target, elems) == [h EXCEPT ![target].elems = @ \cup elems]

\* a variant of NFA._get_next_current_states that collects the next states
\* in the set of end states of the first current state that has one, instead
\* of in a new set
get_next_current_states_in_place(h, refs, current_states, symbol, cell) ==
    LET x == Deref(h, "nfa", refs)
        r == get_next_current_states(x, h[current_states].elems, symbol)
        h1 == [h EXCEPT ![cell] = SetObj({})]
        live == SelectSeq(Sorted(h[current_states].elems),
                          LAMBDA s : RowGet(x.transitions[s], symbol) # {})
        next_current_states ==
            IF live = <<>> THEN cell
            ELSE h[h[refs.transitions].items[live[1]].id].items[symbol].id
    IN IF r.raised # "none"
       THEN [heap |-> h, raised |-> r.raised, id |-> current_states]
       ELSE [heap |-> update(h1, next_current_states, r.value),
             raised |-> "none", id |-> next_current_states]

\* NFA._get_next_current_states on objects: next_current_states is a new
\* set, made in the free cell `cell`, and every update is an update of that
\* set; the sets that _add_lambda_transition_states returns are new as well
\* and are dropped when the call returns
get_next_current_states_obj(h, refs, current_states, symbol, cell) ==
    LET x == Deref(h, "nfa", refs)
        r == get_next_current_states(x, h[current_states].elems, symbol)
        h1 == [h EXCEPT ![cell] = SetObj({})]
        next_current_states == cell
    IN IF r.raised # "none"
       THEN [heap |-> h, raised |-> r.raised, id |-> current_states]
       ELSE [heap |-> update(h1, next_current_states, r.value),
             raised |-> "none", id |-> next_current_states]

\* the configuration a run holds: the state a DFA run is in, the elements
\* of the set an NFA run refers to
ConfigurationOf(h, kind, c) ==
    IF kind = "nfa" THEN h[c.id].elems ELSE c.name

\* a valid automaton object, and for every run an input
InitConcurrent ==
    /\ \E kind \in {"dfa", "nfa"} :
          /\ obj_kind = kind
          /\ \E p \in IF kind = "nfa"
                      THEN {FormalParams({"q0", "q1"}, {"a"}, T, <<"q0", "q1">>,
                                         "q0", {"q1"}) : T \in ConcNFATables}
                      ELSE {FormalParams({"q0", "q1"}, {"a"}, T, <<"q0", "q1">>,
                                         "q0", {"q1"}) :
                                T \in DFATables({"q0", "q1"}, {"a"})} :
                /\ (IF kind = "nfa" THEN validate_automaton(p)
                    ELSE validate_self(p)) = Valid
                /\ heap = store_params(<<>>, kind, p).heap
                              \o [k \in 1..(2 * NumRuns) |-> Free]
                /\ fa_obj = store_params(<<>>, kind, p).refs
                /\ built = p
    /\ \E w \in [1..NumRuns -> ConcInputs] :
          runs = [r \in 1..NumRuns |->
                     [pc |-> "start", input |-> w[r], pos |-> 0,
                      current |-> Str(""), trace |-> <<>>,
                      outcome |-> [raised |-> "running"]]]
    /\ caller_obj = NoRefs
    /\ mutations = 0
    /\ nfa_obj = NoRefs
    /\ ConvOff /\ ValIdle /\ RunIdle /\ CloIdle

\* run r, the first line of validate_input: the initial configuration, for
\* an NFA a new set {self.initial_state}
RunStart(r) ==
    /\ runs[r].pc = "start"
    /\ heap' = IF obj_kind = "nfa"
               THEN [heap EXCEPT ![Cell(heap, r, 0)] =
                                     SetObj({fa_obj.initial_state})]
               ELSE heap
    /\ LET c == IF obj_kind = "nfa" THEN Obj(Cell(heap, r, 0))
                ELSE Str(fa_obj.initial_state)
       IN runs' = [runs EXCEPT ![r].pc = "loop", ![r].current = c,
                               ![r].trace = <<ConfigurationOf(heap', obj_kind, c)>>]
    /\ UNCHANGED <<obj_kind, caller_obj, fa_obj, built, mutations, nfa_obj>>
    /\ UNCHANGED <<convVars, valVars, runVars, cloVars>>

\* run r, one iteration of `for symbol in input_str`
RunRead(r) ==
    /\ runs[r].pc = "loop"
    /\ runs[r].pos < Len(runs[r].input)
    /\ LET x == Deref(heap, obj_kind, fa_obj)
           symbol == runs[r].input[runs[r].pos + 1]
           here == ConfigurationOf(heap, obj_kind, runs[r].current)
           step == IF validate_input_symbol(x, symbol).raised # "none"
                   THEN [heap |-> heap, raised |-> "InvalidSymbolError",
                         current |-> runs[r].current]
                   ELSE IF obj_kind = "nfa"
                   THEN LET old == runs[r].current.id
                            n == get_next_current_states_obj(
                                     heap, fa_obj, old, symbol,
                                     Cell(heap, r, runs[r].pos + 1))
                        IN [heap |-> IF n.raised = "none" /\ old # n.id
                                             /\ old \in CellsOf(heap, r)
                                     THEN [n.heap EXCEPT ![old] = Free]
                                     ELSE n.heap,
                            raised |-> n.raised, current |-> Obj(n.id)]
                   ELSE [heap |-> heap, raised |-> "none",
                         current |-> Str(x.transitions[here][symbol])]
       IN /\ heap' = step.heap
          /\ runs' =
                 IF step.raised # "none"
                 THEN [runs EXCEPT ![r].pc = "ended",
                                   ![r].outcome = [raised |-> step.raised,
                                                   value |-> here]]
                 ELSE [runs EXCEPT ![r].pos = @ + 1,
                                   ![r].current = step.current,
                                   ![r].trace =
                                       Append(@, ConfigurationOf(
                                                     heap', obj_kind, step.current))]
    /\ UNCHANGED <<obj_kind, caller_obj, fa_obj, built, mutations, nfa_obj>>
    /\ UNCHANGED <<convVars, valVars, runVars, cloVars>>

\* run r, after the loop: the final-state test, then the return or the
\* exception
RunStop(r) ==
    /\ runs[r].pc = "loop"
    /\ runs[r].pos = Len(runs[r].input)
    /\ LET x == Deref(heap, obj_kind, fa_obj)
           here == ConfigurationOf(heap, obj_kind, runs[r].current)
       IN runs' = [runs EXCEPT ![r].pc = "ended",
                               ![r].outcome = IF obj_kind = "nfa"
                                              THEN nfa_stop(x, here)
                                              ELSE dfa_stop(x, here)]
    /\ UNCHANGED <<heap, obj_kind, caller_obj, fa_obj, built, mutations, nfa_obj>>
    /\ UNCHANGED <<convVars, valVars, runVars, cloVars>>

NextConcurrent == \E r \in 1..NumRuns : RunStart(r) \/ RunRead(r) \/ RunStop(r)

SpecConcurrent == InitConcurrent /\ [][NextConcurrent]_vars

-----------------------------------------------------------------------------
(* Notions the claims are stated with *)

\* the epsilon-closure of a set of states: the states reachable by zero or
\* more lambda transitions, as a fixed point with a visited set
RECURSIVE EpsilonClosure(_, _)
EpsilonClosure(self, states) ==
    LET more == UNION {RowGet(self.transitions[s], Lambda) : s \in states}
    IN IF more \subseteq states THEN states
       ELSE EpsilonClosure(self, states \cup more)

\* the acceptance test succeeds
NfaAccepts(self, w) == nfa_validate_input(self, w).raised = "none"
DfaAccepts(self, w) == dfa_validate_input(self, w).raised = "none"

\* the exceptions of validation
ValidationErrors ==
    {"MissingStateError", "MissingSymbolError", "InvalidSymbolError",
     "InvalidStateError"}

\* the conversion has ended, with a DFA or with an exception, or hangs
ConvEnded == pc \in {"done", "raised"} \/ Blocked

-----------------------------------------------------------------------------
(* Claims on the subset construction, under Spec *)

\* C1: for every valid NFA n and every input w over its alphabet, n accepts
\* w iff the DFA built from n accepts w; a conversion that builds no DFA
\* accepts nothing.
C1_LanguageEquivalence ==
    (origin = "nfa" /\ ConvEnded) =>
        \A w \in Words(nfa.symbols, MaxLen) :
            NfaAccepts(nfa, w) <=> (pc = "done" /\ DfaAccepts(dfa, w))

\* C2: the DFA built by subset construction passes DFA validation: the
\* conversion of a valid NFA never raises a validation error.
C2_ConversionPassesValidation ==
    origin = "nfa" => ~(pc = "raised" /\ error \in ValidationErrors)

\* C3: subset construction never blocks: the worklist loop never waits on an
\* empty queue, also for an NFA with an empty alphabet.
C3_NeverBlocks == origin = "nfa" => ~Blocked

\* C6: the initial DFA state is the label of the epsilon-closure of
\* {nfa.initial_state} and the worklist is seeded with that closure.
C6_InitialIsClosure ==
    (origin = "nfa" /\ pc = "loop" /\ i = 0) =>
        LET closure == EpsilonClosure(nfa, {nfa.initial_state})
        IN /\ dfa_initial_state = stringify_states(closure)
           /\ state_queue = <<closure>>

\* C7: round trip: for every valid DFA d, d -> NFA -> DFA completes and the
\* DFA it yields accepts exactly the inputs d accepts.
C7_RoundTrip ==
    (origin = "dfa" /\ (pc = "loop" \/ ConvEnded)) =>
        /\ ~Blocked
        /\ pc # "raised"
        /\ pc = "done" =>
               \A w \in Words(d.symbols, MaxLen) :
                   DfaAccepts(d, w) <=> DfaAccepts(dfa, w)

-----------------------------------------------------------------------------
(* Claims on validation, under SpecValidate *)

\* the invariants of section 3 of the specification, row by row
MissingStartState(p) == \E s \in p.states : s \notin DOMAIN p.transitions
DfaRowOmitsSymbol(p, k) == \E a \in p.symbols : a \notin DOMAIN p.transitions[k]
DfaRowSymbolError(p, k) ==
    \/ DfaRowOmitsSymbol(p, k)
    \/ \E a \in DOMAIN p.transitions[k] : a \notin p.symbols
DfaRowEndError(p, k) ==
    \E a \in DOMAIN p.transitions[k] : p.transitions[k][a] \notin p.states
NfaRowSymbolError(p, k) ==
    \E a \in DOMAIN p.transitions[k] : a \notin p.symbols \cup {Lambda}
NfaRowEndError(p, k) ==
    \E a \in DOMAIN p.transitions[k] : ~(p.transitions[k][a] \subseteq p.states)
InvalidInitial(p) == p.initial_state \notin p.states
InvalidFinal(p) == ~(p.final_states \subseteq p.states)

\* the kind of error a validation result reports
ErrorKind(result) ==
    CASE result.check = "none" -> "none"
      [] result.check = "start_state" -> "start"
      [] result.check \in {"missing_symbol", "invalid_symbol"} -> "symbol"
      [] result.check = "end_state" -> "end"
      [] result.check = "initial_state" -> "initial"
      [] result.check = "final_states" -> "final"

\* the earliest violated kind when all symbol tables come before all end
\* states
GlobalFirst(p, SymbolError(_, _), EndError(_, _)) ==
    IF MissingStartState(p) THEN "start"
    ELSE IF \E k \in DOMAIN p.transitions : SymbolError(p, k) THEN "symbol"
    ELSE IF \E k \in DOMAIN p.transitions : EndError(p, k) THEN "end"
    ELSE IF InvalidInitial(p) THEN "initial"
    ELSE IF InvalidFinal(p) THEN "final"
    ELSE "none"

\* the earliest violated kind when the rows are taken one after the other in
\* the iteration order of the transitions, symbols before end states in
\* each row
RowWiseFirst(p, SymbolError(_, _), EndError(_, _)) ==
    LET bad == {j \in 1..Len(p.order) :
                    SymbolError(p, p.order[j]) \/ EndError(p, p.order[j])}
        first == CHOOSE j \in bad : \A j2 \in bad : j <= j2
    IN IF MissingStartState(p) THEN "start"
       ELSE IF bad # {}
            THEN IF SymbolError(p, p.order[first]) THEN "symbol" ELSE "end"
       ELSE IF InvalidInitial(p) THEN "initial"
       ELSE IF InvalidFinal(p) THEN "final"
       ELSE "none"

\* C8 as stated: validation raises the error that comes first in the order
\* missing start state, symbol-table error, invalid end state, invalid
\* initial state, invalid final states; a symbol error in any row is reported
\* before an invalid end state in any other row.
C8_GlobalOrder ==
    /\ dfa_result # NotRun =>
           ErrorKind(dfa_result) = GlobalFirst(params, DfaRowSymbolError, DfaRowEndError)
    /\ nfa_result # NotRun =>
           ErrorKind(nfa_result) = GlobalFirst(nfa_params, NfaRowSymbolError, NfaRowEndError)

\* C8 amended: validation raises the error that comes first in the order
\* missing start state, then row by row in the iteration order of the
\* transitions that row's symbol-table error and then that row's invalid end
\* state, then invalid initial state, then invalid final states.
C8_RowWiseOrder ==
    /\ dfa_result # NotRun =>
           ErrorKind(dfa_result) = RowWiseFirst(params, DfaRowSymbolError, DfaRowEndError)
    /\ nfa_result # NotRun =>
           ErrorKind(nfa_result) = RowWiseFirst(nfa_params, NfaRowSymbolError, NfaRowEndError)

\* C8 witness: a DFA definition with an invalid end state in one row and a
\* symbol error in the same row and in another row has been validated.
C8_Witness ==
    /\ dfa_result # NotRun
    /\ ~MissingStartState(params)
    /\ \E k1, k2 \in DOMAIN params.transitions :
          /\ k1 # k2
          /\ DfaRowEndError(params, k1) /\ DfaRowSymbolError(params, k1)
          /\ DfaRowSymbolError(params, k2) /\ DfaRowEndError(params, k2)
    /\ InvalidInitial(params)

\* the formal parameters violate no invariant, but for rows of a DFA that
\* omit alphabet symbols
ValidButForOmissions(p) ==
    /\ ~MissingStartState(p)
    /\ \A k \in DOMAIN p.transitions :
          /\ \A a \in DOMAIN p.transitions[k] : a \in p.symbols
          /\ ~DfaRowEndError(p, k)
    /\ ~InvalidInitial(p)
    /\ ~InvalidFinal(p)

\* some state's row omits an alphabet symbol
SomeStateOmitsSymbol(p) ==
    \E s \in p.states \cap DOMAIN p.transitions : DfaRowOmitsSymbol(p, s)

\* C9: every successfully constructed DFA has a transition for every state
\* and every alphabet symbol; formal parameters in which some state's row
\* omits an alphabet symbol never construct a DFA and, when that is their only
\* defect, raise MissingSymbolError, while the NFA with the same tables
\* constructs successfully.
C9_Totality ==
    /\ dfa_result.error = "none" =>
           \A s \in params.states, a \in params.symbols :
               s \in DOMAIN params.transitions /\ a \in DOMAIN params.transitions[s]
    /\ (dfa_result # NotRun /\ SomeStateOmitsSymbol(params)) =>
           dfa_result.error # "none"
    /\ (dfa_result # NotRun /\ SomeStateOmitsSymbol(params)
            /\ ValidButForOmissions(params)) =>
           dfa_result.error = "MissingSymbolError"
    /\ (nfa_result # NotRun /\ SomeStateOmitsSymbol(params)
            /\ ValidButForOmissions(params) /\ nfa_params = Lift(params)) =>
           nfa_result.error = "none"

\* C9 witness: the same partial table was given to both constructors; the
\* DFA raised MissingSymbolError and the NFA was built.
C9_Witness ==
    /\ SomeStateOmitsSymbol(params)
    /\ ValidButForOmissions(params)
    /\ nfa_params = Lift(params)
    /\ dfa_result.error = "MissingSymbolError"
    /\ nfa_result.error = "none"

-----------------------------------------------------------------------------
(* Claims on acceptance, under SpecAccept, and on the closure, under
   SpecClosure *)

\* the state a DFA reaches from state s by one transition per symbol of w
RECURSIVE DeltaStar(_, _, _)
DeltaStar(self, s, w) ==
    IF Len(w) = 0 THEN s
    ELSE DeltaStar(self, self.transitions[s][Head(w)], Tail(w))

\* every symbol of the input is in the alphabet
OverAlphabet(self, w) == \A k \in 1..Len(w) : w[k] \in self.symbols

\* C4: epsilon-closure terminates on every valid NFA: the computation returns
\* and raises nothing, and on a cycle of lambda transitions between two
\* states it returns exactly those two states.
C4_ClosureReturns ==
    closure_result # Running =>
        /\ closure_result.raised = "none"
        /\ \A s, t \in closure_nfa.states :
              (/\ s # t
               /\ RowGet(closure_nfa.transitions[s], Lambda) = {t}
               /\ RowGet(closure_nfa.transitions[t], Lambda) = {s}
               /\ closure_arg = {s, t})
                  => closure_arg \cup closure_result.value = {s, t}

\* C5: NFA acceptance starts from the epsilon-closure of {initial_state}: the
\* state set before the first symbol is that closure, and the empty input is
\* accepted exactly when the closure meets final_states.
C5_StartsFromClosure ==
    run_kind = "nfa" =>
        LET closure == EpsilonClosure(run_fa, {run_fa.initial_state})
        IN /\ (run_pc = "loop" /\ pos = 0) => current = closure
           /\ (run_pc = "ended" /\ input_str = <<>>) =>
                  (outcome.raised = "none" <=> closure \cap run_fa.final_states # {})

\* a DFA run on an input over the alphabet follows exactly one transition per
\* symbol from initial_state and returns the stop state iff the state reached
\* after the last symbol is final; otherwise it raises the non-final-stop
\* error, which carries the stop state
DfaRunFollowsTransitions ==
    (run_kind = "dfa" /\ OverAlphabet(run_fa, input_str)) =>
        LET stop == DeltaStar(run_fa, run_fa.initial_state, input_str)
        IN /\ run_pc = "loop" =>
                  /\ taken = pos
                  /\ current = DeltaStar(run_fa, run_fa.initial_state,
                                         SubSeq(input_str, 1, pos))
           /\ run_pc = "ended" =>
                  /\ taken = Len(input_str)
                  /\ outcome.value = stop
                  /\ outcome.raised =
                         IF stop \in run_fa.final_states THEN "none"
                         ELSE "FinalStateError"

\* the run of the parity DFA on input w has ended
ParityRunEnded(w) ==
    run_kind = "dfa" /\ run_fa = ParityDFA /\ input_str = w /\ run_pc = "ended"

\* C10 as stated: DFA acceptance follows one transition per symbol and
\* succeeds iff the state reached is final; the parity DFA stops at S1 on 1010
\* and accepts, and stops at S2 on 101 and rejects.
C10_AsStated ==
    /\ DfaRunFollowsTransitions
    /\ ParityRunEnded(<<"1", "0", "1", "0">>) => outcome = Return("S1")
    /\ ParityRunEnded(<<"1", "0", "1">>) =>
           (outcome.raised = "FinalStateError" /\ outcome.value = "S2")

\* C10 amended: DFA acceptance follows one transition per symbol and succeeds
\* iff the state reached is final; the parity DFA stops at S1 on 1010 and
\* accepts, and on 101, which also holds two 1s, it stops at S1 and accepts.
C10_DfaAcceptance ==
    /\ DfaRunFollowsTransitions
    /\ ParityRunEnded(<<"1", "0", "1", "0">>) => outcome = Return("S1")
    /\ ParityRunEnded(<<"1", "0", "1">>) => outcome = Return("S1")

\* C10 witness: the parity DFA has read 1010 and returned S1.
C10_Witness ==
    /\ run_kind = "dfa"
    /\ run_fa = ParityDFA
    /\ input_str = <<"1", "0", "1", "0">>
    /\ run_pc = "ended"
    /\ taken = 4
    /\ outcome = Return("S1")

-----------------------------------------------------------------------------
(* Claims on invalid input symbols, under SpecAccept *)

\* the position of the first symbol of w that is outside the alphabet
FirstOutsider(self, w) ==
    CHOOSE k \in 1..Len(w) :
        /\ w[k] \notin self.symbols
        /\ \A j \in 1..(k - 1) : w[j] \in self.symbols

\* C11: when the input contains a symbol outside the alphabet, acceptance
\* (DFA and NFA) ends with the invalid-symbol error at the first such symbol:
\* exactly the transitions for the symbols before it have been taken and none
\* for it or for a later symbol, whatever the prefix reached.
C11_InvalidSymbolFirst ==
    (run_pc = "ended" /\ ~OverAlphabet(run_fa, input_str)) =>
        /\ outcome.raised = "InvalidSymbolError"
        /\ taken = FirstOutsider(run_fa, input_str) - 1
        /\ pos = FirstOutsider(run_fa, input_str) - 1

-----------------------------------------------------------------------------
(* Claims on the states of the converted DFA, under Spec *)

\* the subsets reachable from the subsets of `seen` by Next-states, for the
\* symbols of the alphabet
RECURSIVE ReachableSubsets(_, _)
ReachableSubsets(self, seen) ==
    LET more == {r.value : r \in {x \in {get_next_current_states(self, S, a) :
                                            S \in seen, a \in self.symbols} :
                                      x.raised = "none"}}
    IN IF more \subseteq seen THEN seen
       ELSE ReachableSubsets(self, seen \cup more)

\* some dequeued subset has no next state on some symbol: the worklist was
\* given the empty subset
WorklistProducedEmpty ==
    \E k \in 1..Len(dequeued), a \in nfa.symbols :
        get_next_current_states(nfa, dequeued[k], a) = Return({})

\* C15: for an NFA with n states the DFA built by subset construction has at
\* most 2^n states; every DFA state is the label of a subset that was
\* dequeued from the worklist, which is a subset reachable from the start
\* subset; the label of the empty subset is a DFA state only if the worklist
\* produced the empty subset.
C15_StatesAreDequeuedSubsets ==
    (origin = "nfa" /\ pc = "done") =>
        /\ Cardinality(dfa.states) <= Pow2(Cardinality(nfa.states))
        /\ dfa.states = {stringify_states(S) : S \in Range(dequeued)}
        /\ Range(dequeued) \subseteq ReachableSubsets(nfa, {{nfa.initial_state}})
        /\ stringify_states({}) \in dfa.states =>
               ({} \in Range(dequeued) /\ WorklistProducedEmpty)

\* C15 witness: a DFA has been built from an NFA with two states; it has
\* three states, one of them the label of the empty subset.
C15_Witness ==
    /\ origin = "nfa"
    /\ pc = "done"
    /\ Cardinality(nfa.states) = 2
    /\ Cardinality(dfa.states) = 3
    /\ stringify_states({}) \in dfa.states

-----------------------------------------------------------------------------
(* Claims on the closure of a closure, under SpecClosure *)

\* the closure of the argument as the code forms it: the argument together
\* with the states the call returned
ClosureOfArg == closure_arg \cup closure_result.value

\* C16: closure idempotence: for every valid NFA and every set S of its
\* states the closure of S, which is S with every state reachable from S by
\* lambda transitions, is computed, and the closure of that closure is
\* computed and equals it.
C16_ClosureIdempotent ==
    /\ closure_result # Running =>
           /\ closure_result.raised = "none"
           /\ ClosureOfArg = EpsilonClosure(closure_nfa, closure_arg)
    /\ closure_again # Running =>
           /\ closure_again.raised = "none"
           /\ ClosureOfArg \cup closure_again.value = ClosureOfArg

-----------------------------------------------------------------------------
(* Claims on the NFA of the test suite, under SpecAccept *)

\* the run of the test NFA on n times "a" has ended
TestNFARunEnded(n) ==
    /\ run_kind = "nfa"
    /\ run_fa = TestNFA
    /\ input_str = [k \in 1..n |-> "a"]
    /\ run_pc = "ended"

-----------------------------------------------------------------------------
(* Claims on NFA validation, under SpecValidate *)

\* the invariants of an NFA definition, by the error that reports them
NfaMissingState(p) == MissingStartState(p)
NfaInvalidSymbol(p) == \E k \in DOMAIN p.transitions : NfaRowSymbolError(p, k)
NfaInvalidState(p) ==
    \/ \E k \in DOMAIN p.transitions : NfaRowEndError(p, k)
    \/ InvalidInitial(p)
    \/ InvalidFinal(p)

\* C18: NFA validation succeeds exactly when all invariants hold and
\* otherwise raises the error of a violated invariant: MissingStateError for
\* a state without a transitions entry, InvalidSymbolError for a transition
\* key that is neither an alphabet symbol nor the empty symbol,
\* InvalidStateError for a destination, an initial state or a final state
\* outside `states`; when the invariants of one error only are violated, that
\* error is raised.
C18_NfaValidation ==
    nfa_result # NotRun =>
        LET p == nfa_params
            e == nfa_result.error
        IN /\ e \in {"none", "MissingStateError", "InvalidSymbolError",
                     "InvalidStateError"}
           /\ e = "none" <=>
                  ~(NfaMissingState(p) \/ NfaInvalidSymbol(p) \/ NfaInvalidState(p))
           /\ e = "MissingStateError" => NfaMissingState(p)
           /\ e = "InvalidSymbolError" => NfaInvalidSymbol(p)
           /\ e = "InvalidStateError" => NfaInvalidState(p)
           /\ (NfaMissingState(p) /\ ~NfaInvalidSymbol(p) /\ ~NfaInvalidState(p))
                  => e = "MissingStateError"
           /\ (~NfaMissingState(p) /\ NfaInvalidSymbol(p) /\ ~NfaInvalidState(p))
                  => e = "InvalidSymbolError"
           /\ (~NfaMissingState(p) /\ ~NfaInvalidSymbol(p) /\ NfaInvalidState(p))
                  => e = "InvalidStateError"

\* C18 witness: an NFA definition with a lambda transition and a state whose
\* row omits an alphabet symbol has been validated and found valid.
C18_Witness ==
    /\ nfa_result.error = "none"
    /\ \E k \in DOMAIN nfa_params.transitions :
          Lambda \in DOMAIN nfa_params.transitions[k]
    /\ \E k \in nfa_params.states, a \in nfa_params.symbols :
          a \notin DOMAIN nfa_params.transitions[k]

-----------------------------------------------------------------------------
(* Claims on the worklist loop, under Spec *)

\* an iteration of the loop has dequeued a subset whose label was a DFA
\* state already
DequeuedAgain ==
    /\ pc = "loop"
    /\ i' = i + 1
    /\ stringify_states(Head(state_queue)) \in dfa_states

\* the loop has ended and the DFA is being constructed
LoopEnded == pc = "loop" /\ i' = i /\ pc' \in {"done", "raised"} /\ i > 0

\* C19: during subset construction each distinct subset is expanded at most
\* once: when a subset whose label is already a DFA state is dequeued again,
\* no transition is recomputed and nothing is enqueued; and the loop ends
\* when the worklist is empty, not after a fixed number of iterations.
C19_ExpandOnce ==
    [][/\ DequeuedAgain =>
              /\ state_queue' = Tail(state_queue)
              /\ dfa_transitions' = dfa_transitions
       /\ (LoopEnded /\ error' # "RecursionError") => state_queue = <<>>]_vars

-----------------------------------------------------------------------------
(* Claims on Next-states and the empty set, under SpecAccept *)

\* the end states the states of S have on symbol a, a state with no entry
\* giving none
Destinations(self, S, a) == UNION {RowGet(self.transitions[s], a) : s \in S}

\* in the converted DFA the label of the empty subset, when it is a state, is
\* not final and every symbol leads from it to itself (a state predicate of
\* the conversion, the last part of C20)
EmptySubsetIsDeadState ==
    (origin = "nfa" /\ pc = "done" /\ stringify_states({}) \in dfa.states) =>
        /\ stringify_states({}) \notin dfa.final_states
        /\ \A a \in dfa.symbols :
              dfa.transitions[stringify_states({})][a] = stringify_states({})

\* C20: Next-states(S, a) returns the epsilon-closure of the union of the
\* a-destinations of the states of S; so the empty set is absorbing, and an
\* NFA run over the alphabet whose set has become empty ends in rejection
\* with the empty set, not in another error.
C20_NextStates ==
    run_kind = "nfa" =>
        /\ (run_pc = "loop" /\ pos < Len(input_str)
                /\ input_str[pos + 1] \in run_fa.symbols) =>
               get_next_current_states(run_fa, current, input_str[pos + 1])
                   = Return(EpsilonClosure(
                         run_fa, Destinations(run_fa, current, input_str[pos + 1])))
        /\ \A a \in run_fa.symbols :
               get_next_current_states(run_fa, {}, a) = Return({})
        /\ (run_pc = "ended" /\ OverAlphabet(run_fa, input_str) /\ current = {}) =>
               (outcome.raised = "FinalStateError" /\ outcome.value = {})

-----------------------------------------------------------------------------
(* Claims on copies, under SpecCopy *)

\* the result of the acceptance test of the automaton with fields x on w
Accept(kind, x, w) ==
    IF kind = "nfa" THEN nfa_validate_input(x, w) ELSE dfa_validate_input(x, w)

\* the inputs the acceptance results are compared on
CopyInputs(x) == Words(x.symbols \cup {Outsider}, 2)

\* C13: defensive copy: an automaton built from formal parameters shares no
\* collection with the caller; whatever the caller changes afterwards in its
\* states, symbols, final states, transitions dict, rows or (NFA) sets of end
\* states, the automaton's fields and its acceptance results stay as they
\* were when its construction returned.
C13_DefensiveCopy ==
    fa_obj # NoRefs =>
        /\ ObjectsOf(heap, fa_obj) \cap ObjectsOf(heap, caller_obj) = {}
        /\ Deref(heap, obj_kind, fa_obj) = built
        /\ \A w \in CopyInputs(built) :
               Accept(obj_kind, Deref(heap, obj_kind, fa_obj), w)
                   = Accept(obj_kind, built, w)

\* C13 witness: an NFA was built from the caller's collections, and the
\* caller has since changed the set of end states of one of its rows and
\* another of its collections.
C13_Witness ==
    /\ obj_kind = "nfa"
    /\ fa_obj # NoRefs
    /\ mutations = 2
    /\ DOMAIN heap[caller_obj.transitions].items = built.states
    /\ \E s \in built.states :
          LET row == heap[heap[caller_obj.transitions].items[s].id].items
          IN /\ DOMAIN row = DOMAIN built.transitions[s]
             /\ \E a \in DOMAIN row :
                   heap[row[a].id].elems # built.transitions[s][a]
    /\ heap[caller_obj.final_states].elems # built.final_states

\* C14: NFA(dfa) of a valid DFA is a valid NFA with the DFA's states,
\* alphabet, initial state and final states, in which every DFA transition
\* (s, a) -> t is the transition (s, a) -> {t} and there is no other
\* transition, so no lambda transition; the DFA is as it was before.
C14_LiftIsExact ==
    nfa_obj # NoRefs =>
        LET n == Deref(heap, "nfa", nfa_obj)
            x == Deref(heap, "dfa", fa_obj)
        IN /\ validate_automaton(n) = Valid
           /\ n.states = x.states
           /\ n.symbols = x.symbols
           /\ n.initial_state = x.initial_state
           /\ n.final_states = x.final_states
           /\ DOMAIN n.transitions = DOMAIN x.transitions
           /\ \A s \in DOMAIN n.transitions :
                 /\ DOMAIN n.transitions[s] = DOMAIN x.transitions[s]
                 /\ Lambda \notin DOMAIN n.transitions[s]
                 /\ \A a \in DOMAIN n.transitions[s] :
                       n.transitions[s][a] = {x.transitions[s][a]}
           /\ x = built
           /\ ObjectsOf(heap, nfa_obj) \cap ObjectsOf(heap, fa_obj) = {}

\* C14 witness: NFA(dfa) has been built from a DFA with two states and two
\* symbols whose transitions lead to both states.
C14_Witness ==
    /\ nfa_obj # NoRefs
    /\ built.states = {"q0", "q1"}
    /\ built.symbols = {"a", "b"}
    /\ Deref(heap, "nfa", nfa_obj).transitions["q0"]["a"] = {"q1"}
    /\ Deref(heap, "nfa", nfa_obj).transitions["q1"]["b"] = {"q0"}

-----------------------------------------------------------------------------
(* Claims on concurrent acceptance runs, under SpecConcurrent *)

\* the configurations of a run of the automaton with fields x on w when it
\* runs alone, from configuration c on
RECURSIVE ConfigurationsFrom(_, _, _, _)
ConfigurationsFrom(kind, x, c, w) ==
    IF w = <<>> THEN <<c>>
    ELSE LET r == IF kind = "nfa" THEN nfa_read_symbol(x, c, Head(w))
                  ELSE dfa_read_symbol(x, c, Head(w))
         IN IF r.raised # "none" THEN <<c>>
            ELSE <<c>> \o ConfigurationsFrom(kind, x, r.value, Tail(w))

SoloConfigurations(kind, x, w) ==
    ConfigurationsFrom(
        kind, x, IF kind = "nfa" THEN nfa_start_states(x) ELSE x.initial_state, w)

\* C12: acceptance testing never changes the automaton, and the runs are
\* independent: under every interleaving of the steps of several runs on one
\* automaton its states, alphabet, transitions, initial state and final
\* states stay as they were, and every run goes through the configurations
\* and ends with the outcome it has when it runs alone.
C12_RunsAreIndependent ==
    runs # <<>> =>
        /\ Deref(heap, obj_kind, fa_obj) = built
        /\ \A r \in 1..NumRuns :
              LET solo == SoloConfigurations(obj_kind, built, runs[r].input)
              IN /\ runs[r].pc # "start" =>
                        /\ Len(runs[r].trace) <= Len(solo)
                        /\ runs[r].trace = SubSeq(solo, 1, Len(runs[r].trace))
                        /\ ConfigurationOf(heap, obj_kind, runs[r].current)
                               = runs[r].trace[Len(runs[r].trace)]
                 /\ runs[r].pc = "ended" =>
                        /\ runs[r].trace = solo
                        /\ runs[r].outcome
                               = Accept(obj_kind, built, runs[r].input)

\* C12 witness: two runs with different inputs are on one NFA that has a
\* lambda transition; the first has read its two symbols and returned its
\* stop states while the second, which has read one symbol, is under way.
C12_Witness ==
    /\ obj_kind = "nfa"
    /\ \E s \in built.states : Lambda \in DOMAIN built.transitions[s]
    /\ runs[1].input # runs[2].input
    /\ runs[1].pc = "ended"
    /\ runs[1].outcome.raised = "none"
    /\ Len(runs[1].trace) = 3
    /\ runs[2].pc = "loop"
    /\ runs[2].pos = 1

-----------------------------------------------------------------------------
(* Claim on the size of the worklist, under Spec *)

\* the loop of _init_from_nfa has been entered
LoopEntered == dfa_initial_state # <<>>

\* the loop of _init_from_nfa has been left, normally or by an exception
LoopLeft == LoopEntered /\ (pc \in {"done", "raised"} \/ i = max_num_dfa_states)

\* the subsets put on the queue so far, the initial one included
NumPut == Len(dequeued) + Len(state_queue)

\* C21: in subset construction over an NFA with k >= 1 symbols every
\* iteration dequeues one subset and enqueues exactly k, so the queue holds
\* 1 + (i-1)(k-1) >= 1 subsets before the i-th dequeue (here i counts the
\* iterations done, so the dequeue to come is the (i+1)-th), the dequeue
\* never finds the queue empty, and the loop performs exactly
\* 2^|nfa.states| dequeues.
C21_WorklistInvariant ==
    LET k == Cardinality(nfa.symbols)
    IN (LoopEntered /\ k >= 1) =>
           /\ NumPut = 1 + k * Len(dequeued)
           /\ (pc = "loop" /\ i < max_num_dfa_states) =>
                  /\ Len(dequeued) = i
                  /\ Len(state_queue) = 1 + i * (k - 1)
                  /\ Len(state_queue) >= 1
           /\ ~Blocked
           /\ LoopLeft => Len(dequeued) = max_num_dfa_states

====
